---- MODULE Spec2Model ----
(***************************************************************************)
(* A model of two webviz-subsurface plugins:                               *)
(*   - AssistedHistoryMatchingAnalysis (_ahm_analysis_plugin.py): the      *)
(*     callbacks _update_graph and _generatetable over the csv files       *)
(*     ks.csv, active_obs_info.csv and misfit_obs_info.csv;                *)
(*   - SimulationTimeSeriesModel (simulation_timeseries_model.py): the     *)
(*     constructor and the three memoized trace builders.                  *)
(* Python strings are sequences of one-character strings, so that          *)
(* substring tests, str.split and lexicographic order are computed.        *)
(***************************************************************************)
EXTENDS Integers, Sequences, FiniteSets, TLC

VARIABLES
    ks_csv,          \* ks.csv: [columns, index, val]
    active_info,     \* active_obs_info.csv, row "ratio": column -> string
    misfit_info,     \* misfit_obs_info.csv, row "misfit": column -> number
    graph,           \* the last run of _update_graph: inputs and outcome
    table,           \* the last run of _generatetable: input and outcome
    raw_df,          \* the dataframe handed to SimulationTimeSeriesModel
    dataframe,       \* self._dataframe
    model_state,     \* "new" | "ok" | "KeyError"
    ctor_error,      \* the column a KeyError names
    cache,           \* CACHE: memoize key -> stored traces
    ts_call          \* the last trace-builder call: key, hit, returned traces

ahmVars == <<ks_csv, active_info, misfit_info, graph, table>>
tsVars == <<raw_df, dataframe, model_state, ctor_error, cache, ts_call>>
vars == <<ahmVars, tsVars>>

----------------------------------------------------------------------------
(* Bounds of the model *)

\* the largest value of a cell of ks.csv
MaxKs == 2
\* rows of the dataframe
MaxRows == 2
\* entries the memoize cache holds at once
MaxCache == 1

----------------------------------------------------------------------------
(* Python strings *)

\* the characters used, in ascending code point order
Alphabet ==
    <<" ", "-", "0", "1", "2", "3", "9", "A", "B", "C", "F", "H", "K", "O",
      "P", "T", "W", "X", "_", "a", "b", "l", "o", "s">>

Ord(c) == CHOOSE i \in 1..Len(Alphabet) : Alphabet[i] = c

\* s < t for Python strings
RECURSIVE StrLess(_, _)
StrLess(s, t) ==
    IF t = <<>> THEN FALSE
    ELSE IF s = <<>> THEN TRUE
    ELSE IF Head(s) # Head(t) THEN Ord(Head(s)) < Ord(Head(t))
    ELSE StrLess(Tail(s), Tail(t))

\* sub in s
Contains(sub, s) ==
    \E i \in 0..(Len(s) - Len(sub)) : SubSeq(s, i + 1, i + Len(sub)) = sub

\* s.split(sep) for a one-character sep
RECURSIVE Split(_, _)
Split(s, sep) ==
    IF \A i \in 1..Len(s) : s[i] # sep THEN <<s>>
    ELSE LET k == CHOOSE i \in 1..Len(s) :
                      s[i] = sep /\ \A j \in 1..(i - 1) : s[j] # sep
         IN <<SubSeq(s, 1, k - 1)>> \o Split(SubSeq(s, k + 1, Len(s)), sep)

Digits == <<"0", "1", "2", "3", "4", "5", "6", "7", "8", "9">>
IsDigit(c) == \E d \in 1..10 : Digits[d] = c
DigitVal(c) == (CHOOSE d \in 1..10 : Digits[d] = c) - 1

\* int(s): a number, or ValueError
RECURSIVE IntOf(_)
IntOf(s) ==
    IF Len(s) = 1 THEN DigitVal(s[1])
    ELSE 10 * IntOf(SubSeq(s, 1, Len(s) - 1)) + DigitVal(s[Len(s)])

IsInt(s) == s # <<>> /\ \A i \in 1..Len(s) : IsDigit(s[i])

\* str(n) for n >= 0
RECURSIVE StrOf(_)
StrOf(n) ==
    IF n < 10 THEN <<Digits[n + 1]>>
    ELSE StrOf(n \div 10) \o <<Digits[(n % 10) + 1]>>

Range(s) == {s[i] : i \in 1..Len(s)}

\* the place of x in seq
PosIn(seq, x) == CHOOSE i \in 1..Len(seq) : seq[i] = x

\* the members of pool that are in S, in pool's order
Pick(pool, S) == SelectSeq(pool, LAMBDA n : n \in S)

\* a sort is given its order as a function on pairs: less[<<a, b>>]
\* stable insertion of x into a list sorted by less
RECURSIVE InsertBy(_, _, _)
InsertBy(less, x, s) ==
    IF s = <<>> THEN <<x>>
    ELSE IF less[<<x, Head(s)>>] THEN <<x>> \o s
    ELSE <<Head(s)>> \o InsertBy(less, x, Tail(s))

RECURSIVE SortBy(_, _)
SortBy(less, s) ==
    IF s = <<>> THEN <<>>
    ELSE InsertBy(less, s[Len(s)], SortBy(less, SubSeq(s, 1, Len(s) - 1)))

\* the order of Python strings, on the members of s
StrOrder(s) == [p \in Range(s) \X Range(s) |-> StrLess(p[1], p[2])]

\* the order of numbers, on the members of s
IntOrder(s) == [p \in Range(s) \X Range(s) |-> p[1] < p[2]]

RECURSIVE Flatten(_)
Flatten(ss) == IF ss = <<>> THEN <<>> ELSE Head(ss) \o Flatten(Tail(ss))

----------------------------------------------------------------------------
(* AssistedHistoryMatchingAnalysis *)

S_All_obs == <<"A", "l", "l", "_", "o", "b", "s">>
S_W1 == <<"W", "1">>
S_W_2 == <<"W", "_", "2">>
S_W3 == <<"W", "3">>
S_P1 == <<"P", "1">>
S_P2 == <<"P", "2">>
S_P3 == <<"P", "3">>
S_K_X == <<"K", "_", "X">>
S_Empty == <<>>
S_All_obs_W1 == S_All_obs \o <<"-">> \o S_W1
S_All_obs_W_2 == S_All_obs \o <<"-">> \o S_W_2

\* numpy.nan, and the None that get_zzdata stores in a float array
NaN == -1

\* a callback that has not run yet
NotRun == [kind |-> "none"]

\* the values of the choice_id radio items
Choices == {"ONE", "ALL"}

\* the default of _generatetable's max_rows
max_rows == 10

\* pd.read_csv(inputdata + "ks.csv", index_col=0).replace(np.nan, 0.0)
ReadKs(csv) ==
    [csv EXCEPT !.val = [cell \in DOMAIN csv.val |->
                            IF csv.val[cell] = NaN THEN 0 ELSE csv.val[cell]]]

\* set_inputfilter
set_inputfilter(input_filter) ==
    IF input_filter = S_Empty THEN <<"_">> ELSE input_filter

\* get_listtoplot without its list_ok.remove("All_obs"): never raises
get_listtoplot_keep_all(joint_ks, choiceplot) ==
    LET list_ok == SelectSeq(joint_ks.columns, LAMBDA c : Contains(S_All_obs, c))
        listtoplot == SelectSeq(joint_ks.columns, LAMBDA c : c \notin Range(list_ok))
    IN IF choiceplot = "ALL"
       THEN [ok |-> TRUE, value |-> list_ok]
       ELSE [ok |-> TRUE, value |-> listtoplot]

\* get_listtoplot: [ok, value]; ok = FALSE when list_ok.remove raises ValueError
get_listtoplot(joint_ks, choiceplot) ==
    LET list_ok == SelectSeq(joint_ks.columns, LAMBDA c : Contains(S_All_obs, c))
        listtoplot == SelectSeq(joint_ks.columns, LAMBDA c : c \notin Range(list_ok))
    IN IF choiceplot = "ALL"
       THEN IF S_All_obs \in Range(list_ok)
            THEN [ok |-> TRUE,
                  value |-> SelectSeq(list_ok, LAMBDA c : c # S_All_obs)]
            ELSE [ok |-> FALSE, value |-> "ValueError"]
       ELSE [ok |-> TRUE, value |-> listtoplot]

\* a test for a "0" anywhere in the first token of the ratio
ZeroActiveContains(active, xxd) ==
    Contains(<<"0">>, Split(active[xxd], " ")[1])

\* get_zzdata's test of one observation: the first token is "0"
ZeroActive(active, xxd) == Split(active[xxd], " ")[1] = <<"0">>

\* get_zzdata: one row per name of yy_data, one cell per name of xx_data
get_zzdata(joint_ks_sorted, yy_data, xx_data, active) ==
    [yid \in 1..Len(yy_data) |->
        [xid \in 1..Len(xx_data) |->
            IF ZeroActive(active, xx_data[xid])
            THEN NaN
            ELSE joint_ks_sorted.val[<<yy_data[yid], xx_data[xid]>>]]]

\* _update_graph up to the point where the figure is built
GraphData(csv, active, input_filter_obs, input_filter_param, choiceplot) ==
    LET joint_ks == ReadKs(csv)
        filter_obs == set_inputfilter(input_filter_obs)
        filter_param == set_inputfilter(input_filter_param)
        ltp == get_listtoplot(joint_ks, choiceplot)
        \* joint_ks.filter(items=listtoplot).sort_index(axis=1)
        sorted_columns == SortBy(StrOrder(ltp.value), ltp.value)
        joint_ks_sorted == [joint_ks EXCEPT !.columns = sorted_columns]
        xx_data == SelectSeq(sorted_columns, LAMBDA c : Contains(filter_obs, c))
        yy_data == SelectSeq(joint_ks.index, LAMBDA p : Contains(filter_param, p))
    IN IF ~ltp.ok THEN [kind |-> "raise", exception |-> "ValueError"]
       ELSE IF S_All_obs \notin Range(joint_ks.columns)
       THEN [kind |-> "raise", exception |-> "KeyError"]
       ELSE IF xx_data = <<>> \/ yy_data = <<>>
       THEN [kind |-> "raise", exception |-> "IndexError"]
       ELSE [kind |-> "graph",
             x |-> xx_data,
             y |-> yy_data,
             z |-> get_zzdata(joint_ks_sorted, yy_data, xx_data, active),
             x2 |-> <<S_All_obs>>,
             y2 |-> yy_data,
             z2 |-> [yid \in 1..Len(yy_data) |->
                        <<joint_ks.val[<<yy_data[yid], S_All_obs>>]>>]]

\* get_ks_filter: one row per cell of the columns of listtoplot
get_ks_filter(listtoplot, active, misfit, joint_ks) ==
    Flatten([k \in 1..Len(listtoplot) |->
        [r \in 1..Len(joint_ks.index) |->
            LET keyss == listtoplot[k]
                indk == joint_ks.val[<<joint_ks.index[r], keyss>>]
            IN [Ks_value |-> indk,
                Obs |-> keyss,
                Param |-> SelectSeq(joint_ks.index,
                              LAMBDA p : joint_ks.val[<<p, keyss>>] = indk),
                Active_Obs |-> IntOf(Split(active[keyss], " ")[1]),
                Avg_Obs_misfit |-> misfit[keyss]]]])

\* the columns _generatetable hands to get_ks_filter
TableColumns(joint_ks, choiceplot) ==
    LET list_ok == SelectSeq(joint_ks.columns, LAMBDA c : Contains(S_All_obs, c))
        listtoplot == SelectSeq(joint_ks.columns, LAMBDA c : c \notin Range(list_ok))
    IN IF choiceplot = "ALL" THEN list_ok ELSE listtoplot

\* the order of sort_values(by="Ks_value"), ascending
KsAscending(a, b) == a.Ks_value < b.Ks_value

\* the order of ks_filter.sort_values(by="Ks_value", ascending=False)
KsDescending(a, b) == a.Ks_value > b.Ks_value

KsOrder(s) == [p \in Range(s) \X Range(s) |-> KsDescending(p[1], p[2])]

\* _generatetable
TableData(csv, active, misfit, choiceplot) ==
    LET joint_ks == ReadKs(csv)
        listtoplot == TableColumns(joint_ks, choiceplot)
        ks_filter == get_ks_filter(listtoplot, active, misfit, joint_ks)
    IN IF /\ joint_ks.index # <<>>
          /\ \E k \in 1..Len(listtoplot) :
                 ~IsInt(Split(active[listtoplot[k]], " ")[1])
       THEN [kind |-> "raise", exception |-> "ValueError"]
       ELSE [kind |-> "table",
             data |-> SortBy(KsOrder(ks_filter), ks_filter),
             page_current |-> 0,
             page_size |-> max_rows]

----------------------------------------------------------------------------------------------------------------------------------------
(* The csv files the callbacks read, and the values of the input components *)

\* a small directory: any columns, so that "All_obs" may be missing
GraphColumnPool == <<S_All_obs_W1, S_W1, S_All_obs>>
GraphParams == <<S_P1, S_K_X>>

\* a directory whose table has more rows than one page, for either choice
TableColumns6 ==
    <<S_W3, S_All_obs_W1, S_W1, S_All_obs, S_W_2, S_All_obs_W_2>>
TableParams == <<S_P1, S_K_X, S_P2, S_P3>>

\* what a cell of ks.csv holds
RawValues == {NaN} \cup 0..MaxKs

\* "<active> a": the first token is the number of active observations
DefaultRatio == <<"2", " ", "a">>
RatioPool ==
    {DefaultRatio, <<"0", " ", "a">>, <<"1", "0", " ", "a">>, <<"0", "a">>}

\* the text typed into filter1_id and filter2_id
ObsFilterPool == {S_Empty, <<"W">>, <<"K">>}
ParamFilterPool == {S_Empty, <<"K">>}

\* ks.csv with the given columns and index: the cell in row i, column j holds
\* (i + j) % (MaxKs + 1), but for one cell, which holds any raw value
KsFiles(columns, index) ==
    LET Cells == Range(index) \X Range(columns)
    IN {[columns |-> columns,
         index |-> index,
         val |-> [cell \in Cells |->
                    IF cell = hc THEN hv
                    ELSE (PosIn(index, cell[1]) + PosIn(columns, cell[2]))
                            % (MaxKs + 1)]] :
            hc \in Cells, hv \in RawValues}

\* row "ratio": DefaultRatio, but for one of the odd columns
RatioRows(columns, odd) ==
    {[c \in Range(columns) |-> IF c = oc THEN orr ELSE DefaultRatio] :
        oc \in odd, orr \in RatioPool}

\* <<columns, index, columns whose ratio varies>>
Directories ==
    {<<Pick(GraphColumnPool, C), GraphParams, C>> :
        C \in (SUBSET Range(GraphColumnPool)) \ {{}}}
    \cup {<<TableColumns6, TableParams, {S_W3, S_All_obs}>>}

InitAHM ==
    /\ \E d \in Directories :
          /\ ks_csv \in KsFiles(d[1], d[2])
          /\ active_info \in RatioRows(d[1], d[3])
          /\ misfit_info = [c \in Range(d[1]) |-> Len(c)]
    /\ graph = NotRun
    /\ table = NotRun
    \* the time-series model is not part of this plugin's page
    /\ raw_df = <<>>
    /\ dataframe = <<>>
    /\ model_state = "new"
    /\ ctor_error = "none"
    /\ cache = <<>>
    /\ ts_call = NotRun

\* the callback _update_graph
UpdateGraph ==
    \E input_filter_obs \in ObsFilterPool, input_filter_param \in ParamFilterPool,
       choiceplot \in Choices :
        /\ graph' = [kind |-> "call",
                     filter_obs |-> input_filter_obs,
                     filter_param |-> input_filter_param,
                     choice |-> choiceplot,
                     out |-> GraphData(ks_csv, active_info, input_filter_obs,
                                       input_filter_param, choiceplot)]
        /\ UNCHANGED <<ks_csv, active_info, misfit_info, table, tsVars>>

\* the callback _generatetable
GenerateTable ==
    \E choiceplot \in Choices :
        /\ table' = [kind |-> "call",
                     choice |-> choiceplot,
                     out |-> TableData(ks_csv, active_info, misfit_info,
                                       choiceplot)]
        /\ UNCHANGED <<ks_csv, active_info, misfit_info, graph, tsVars>>

NextAHM == UpdateGraph \/ GenerateTable

SpecAHM == InitAHM /\ [][NextAHM]_vars

----------------------------------------------------------------------------
(* SimulationTimeSeriesModel *)

\* the ensemble names, in ascending order
EnsembleNames == <<"iter-0", "iter-1", "iter-2">>

EnsOrder(s) ==
    [p \in Range(s) \X Range(s) |->
        PosIn(EnsembleNames, p[1]) < PosIn(EnsembleNames, p[2])]

\* pd.unique: the distinct members of s in order of first appearance
RECURSIVE Unique(_)
Unique(s) ==
    IF s = <<>> THEN <<>>
    ELSE LET u == Unique(SubSeq(s, 1, Len(s) - 1))
         IN IF s[Len(s)] \in Range(u) THEN u ELSE Append(u, s[Len(s)])

\* the keys of a groupby: distinct, ascending
GroupKeys(less, s) == SortBy(less, Unique(s))

Column(rows, c) == [i \in 1..Len(rows) |-> rows[i][c]]

RECURSIVE Sum(_)
Sum(s) == IF s = <<>> THEN 0 ELSE Head(s) + Sum(Tail(s))

\* historical_vector: the name of the history vector of a vector
HistoricalVector(vector) == IF vector = "FOPT" THEN "FOPTH" ELSE "none"

RequiredColumns == <<"ENSEMBLE", "REAL", "DATE">>

\* astype(str) of one DATE value
AsTypeStr(d) == IF d.t = "int" THEN [t |-> "str", v |-> StrOf(d.v)] ELSE d

\* the last required column the dataframe lacks
FirstMissingLast(df) ==
    LET missing == SelectSeq(RequiredColumns, LAMBDA c : c \notin df.columns)
    IN missing[Len(missing)]

\* the column the KeyError names: the loop over the required columns raises
\* at the first one the dataframe lacks
FirstMissing(df) ==
    LET missing == SelectSeq(RequiredColumns, LAMBDA c : c \notin df.columns)
    IN missing[1]

\* __init__ and _prepare_and_validate_data: [kind, column, dataframe]
prepare_and_validate_data(df) ==
    IF \E c \in Range(RequiredColumns) : c \notin df.columns
    THEN [kind |-> "KeyError", column |-> FirstMissing(df), dataframe |-> df]
    ELSE [kind |-> "ok", column |-> "none",
          dataframe |-> [df EXCEPT !.rows =
              [i \in 1..Len(df.rows) |->
                  [df.rows[i] EXCEPT !["DATE"] = AsTypeStr(df.rows[i]["DATE"])]]]]

\* the statistics of a DATE group, as fractions <<numerator, denominator>>
Maximum(values) == <<SortBy(IntOrder(values), values)[Len(values)], 1>>

Minimum(values) == <<SortBy(IntOrder(values), values)[1], 1>>

Mean(values) == <<Sum(values), Len(values)>>

\* quantile(q = tenths / 10), linear interpolation between order statistics
Quantile(values, tenths) ==
    LET sorted == SortBy(IntOrder(values), values)
        h == (Len(values) - 1) * tenths
        lo == (h \div 10) + 1
        rem == h % 10
    IN IF rem = 0 THEN <<10 * sorted[lo], 10>>
       ELSE <<10 * sorted[lo] + rem * (sorted[lo + 1] - sorted[lo]), 10>>

\* ens_df.drop(columns=["ENSEMBLE", "REAL"]).groupby("DATE") and the
\* concatenated statistics of one vector
VectorStats(ens_rows, vector) ==
    LET all_dates == Column(Column(ens_rows, "DATE"), "v")
        dates == GroupKeys(StrOrder(all_dates), all_dates)
        Group(d) == Column(SelectSeq(ens_rows, LAMBDA r : r["DATE"].v = d), vector)
        Series(Stat(_)) ==
            [index |-> dates,
             values |-> [k \in 1..Len(dates) |-> Stat(Group(dates[k]))]]
    IN [mean |-> Series(Mean),
        p10 |-> Series(LAMBDA g : Quantile(g, 1)),
        p90 |-> Series(LAMBDA g : Quantile(g, 9)),
        maximum |-> Series(Maximum),
        minimum |-> Series(Minimum)]

FanTrace(legend_group, hovertext, series, showlegend) ==
    [name |-> legend_group,
     hovertext |-> hovertext,
     x |-> series.index,
     y |-> series.values,
     legendgroup |-> legend_group,
     showlegend |-> showlegend]

\* add_fanchart_traces with the P10 and P90 series exchanged
add_fanchart_traces_swapped(vector_stats, legend_group) ==
    <<FanTrace(legend_group, "Maximum", vector_stats.maximum, FALSE),
      FanTrace(legend_group, "P10", vector_stats.p90, FALSE),
      FanTrace(legend_group, "Mean", vector_stats.mean, TRUE),
      FanTrace(legend_group, "P90", vector_stats.p10, FALSE),
      FanTrace(legend_group, "Minimum", vector_stats.minimum, FALSE)>>

\* add_fanchart_traces
add_fanchart_traces(vector_stats, legend_group) ==
    <<FanTrace(legend_group, "Maximum", vector_stats.maximum, FALSE),
      FanTrace(legend_group, "P10", vector_stats.p10, FALSE),
      FanTrace(legend_group, "Mean", vector_stats.mean, TRUE),
      FanTrace(legend_group, "P90", vector_stats.p90, FALSE),
      FanTrace(legend_group, "Minimum", vector_stats.minimum, FALSE)>>

\* add_history_trace, for a dataframe with at least one row
add_history_trace(rows, vector) ==
    LET real == Unique(Column(rows, "REAL"))[1]
        ens == Unique(Column(rows, "ENSEMBLE"))[1]
        df == SelectSeq(rows, LAMBDA r : r["REAL"] = real /\ r["ENSEMBLE"] = ens)
    IN [name |-> "History",
        hovertext |-> "History",
        x |-> Column(Column(df, "DATE"), "v"),
        y |-> Column(df, vector),
        showlegend |-> TRUE]

\* the end of the three trace builders: the history trace, when the
\* dataframe has the history vector of the vector
WithHistory(df, rows, vector, traces) ==
    IF HistoricalVector(vector) \in df.columns
    THEN IF rows = <<>>
         THEN [kind |-> "raise", exception |-> "IndexError"]
         ELSE [kind |-> "return",
               value |-> Append(traces,
                                add_history_trace(rows, HistoricalVector(vector)))]
    ELSE [kind |-> "return", value |-> traces]

\* ensembles if isinstance(ensembles, list) else [ensembles]: an argument is
\* [list |-> TRUE, v |-> the list] or [list |-> FALSE, v |-> <<the string>>]
AsList(ensembles) == ensembles.v

\* add_statistic_traces, without its memoization
add_statistic_traces(df, ensembles, vector) ==
    LET rows == SelectSeq(df.rows,
                          LAMBDA r : r["ENSEMBLE"] \in Range(AsList(ensembles)))
        keys == GroupKeys(EnsOrder(Column(rows, "ENSEMBLE")),
                          Column(rows, "ENSEMBLE"))
        traces == Flatten([k \in 1..Len(keys) |->
            add_fanchart_traces(
                VectorStats(SelectSeq(rows, LAMBDA r : r["ENSEMBLE"] = keys[k]),
                            vector),
                keys[k])])
    IN WithHistory(df, rows, vector, traces)

\* one line trace per REAL group of the rows of an ensemble
RealizationTraces(ens_rows, ensemble, vector) ==
    LET reals == GroupKeys(IntOrder(Column(ens_rows, "REAL")),
                           Column(ens_rows, "REAL"))
    IN [real_no \in 1..Len(reals) |->
          LET real_df == SelectSeq(ens_rows, LAMBDA r : r["REAL"] = reals[real_no])
          IN [name |-> ensemble,
              x |-> Column(Column(real_df, "DATE"), "v"),
              y |-> Column(real_df, vector),
              real_no |-> real_no - 1,
              legendgroup |-> ensemble,
              showlegend |-> real_no - 1 = 0]]

\* add_ensset_realization_traces, without its memoization
add_ensset_realization_traces(df, ensembles, vector) ==
    LET rows == SelectSeq(df.rows,
                          LAMBDA r : r["ENSEMBLE"] \in Range(AsList(ensembles)))
        keys == GroupKeys(EnsOrder(Column(rows, "ENSEMBLE")),
                          Column(rows, "ENSEMBLE"))
        traces == Flatten([k \in 1..Len(keys) |->
            RealizationTraces(SelectSeq(rows, LAMBDA r : r["ENSEMBLE"] = keys[k]),
                              keys[k], vector)])
    IN WithHistory(df, rows, vector, traces)

\* add_realization_traces, without its memoization; real_filter is
\* [none |-> TRUE] or [none |-> FALSE, v |-> the realizations kept]
add_realization_traces(df, ensemble, vector, real_filter) ==
    LET ens_rows == SelectSeq(df.rows, LAMBDA r : r["ENSEMBLE"] = ensemble)
        rows == IF real_filter.none THEN ens_rows
                ELSE SelectSeq(ens_rows, LAMBDA r : r["REAL"] \in real_filter.v)
    IN WithHistory(df, rows, vector, RealizationTraces(rows, ensemble, vector))

NoFilter == [none |-> TRUE, v |-> {}]

\* a key that leaves the realization filter out
CacheKeyNoFilter(fn, ensembles, vector, real_filter) ==
    [fn |-> fn, ensembles |-> ensembles, vector |-> vector,
     real_filter |-> NoFilter]

\* the key CACHE.memoize files a call under: the function and its arguments
CacheKey(fn, ensembles, vector, real_filter) ==
    [fn |-> fn, ensembles |-> ensembles, vector |-> vector,
     real_filter |-> real_filter]

\* the decorated function, evaluated without the cache; key holds the
\* function and its arguments
Uncached(key, df) ==
    CASE key.fn = "add_statistic_traces" ->
            add_statistic_traces(df, key.ensembles, key.vector)
      [] key.fn = "add_ensset_realization_traces" ->
            add_ensset_realization_traces(df, key.ensembles, key.vector)
      [] key.fn = "add_realization_traces" ->
            add_realization_traces(df, key.ensembles.v[1], key.vector,
                                   key.real_filter)

----------------------------------------------------------------------------
(* The dataframes a model is built from, and the arguments of the calls *)

DataEnsembles == {"iter-0", "iter-1"}
Realizations == {0, 1}
RawDates == {[t |-> "int", v |-> 9], [t |-> "int", v |-> 10]}
Vectors == {"FOPT"}

\* row i holds i * i in FOPT and, with a history vector, its date in FOPTH
RowsOfLen(n) ==
    {[i \in 1..n |->
        [ENSEMBLE |-> e[i], REAL |-> r[i], DATE |-> d[i],
         FOPT |-> i * i, FOPTH |-> d[i].v]] :
            e \in [1..n -> DataEnsembles], r \in [1..n -> Realizations],
            d \in [1..n -> RawDates]}

ColumnSets ==
    {{"ENSEMBLE", "REAL", "DATE", "FOPT"} \ M : M \in SUBSET Range(RequiredColumns)}
    \cup {{"ENSEMBLE", "REAL", "DATE", "FOPT", "FOPTH"}}

Restrict(rows, columns) ==
    [i \in 1..Len(rows) |-> [c \in columns |-> rows[i][c]]]

EnsembleArgs ==
    {[list |-> FALSE, v |-> <<"iter-0">>],
     [list |-> TRUE, v |-> <<"iter-1", "iter-0">>],
     [list |-> TRUE, v |-> <<"iter-2">>]}

EnssetArgs == {[list |-> TRUE, v |-> <<"iter-1", "iter-0">>]}

RealizationArgs == {"iter-0"}

RealFilters == {NoFilter, [none |-> FALSE, v |-> {1}]}

InitTS ==
    /\ \E n \in 0..MaxRows : \E rows \in RowsOfLen(n) : \E columns \in ColumnSets :
          raw_df = [columns |-> columns, rows |-> Restrict(rows, columns)]
    /\ dataframe = raw_df
    /\ model_state = "new"
    /\ ctor_error = "none"
    /\ cache = <<>>
    /\ ts_call = NotRun
    \* the AHM plugin is not part of this model's page
    /\ ks_csv = <<>>
    /\ active_info = <<>>
    /\ misfit_info = <<>>
    /\ graph = NotRun
    /\ table = NotRun

\* SimulationTimeSeriesModel(dataframe)
Construct ==
    /\ model_state = "new"
    /\ LET r == prepare_and_validate_data(dataframe)
       IN /\ model_state' = r.kind
          /\ ctor_error' = r.column
          /\ dataframe' = r.dataframe
    /\ UNCHANGED <<raw_df, cache, ts_call, ahmVars>>

\* a call of a memoized builder: answered from the cache, or evaluated and
\* stored unless it raised
Memoized(fn, ensembles, vector, real_filter) ==
    LET key == CacheKey(fn, ensembles, vector, real_filter)
        call == [kind |-> "call", fn |-> fn, ensembles |-> ensembles,
                 vector |-> vector, real_filter |-> real_filter]
    IN /\ model_state = "ok"
       /\ IF key \in DOMAIN cache
          THEN /\ ts_call' = [call EXCEPT !.kind = "hit"] @@
                             [out |-> [kind |-> "return", value |-> cache[key]]]
               /\ UNCHANGED cache
          ELSE LET out == Uncached(call, dataframe)
               IN /\ out.kind = "return" => Cardinality(DOMAIN cache) < MaxCache
                  /\ ts_call' = [call EXCEPT !.kind = "miss"] @@ [out |-> out]
                  /\ cache' = IF out.kind = "return"
                              THEN [k \in DOMAIN cache \cup {key} |->
                                       IF k = key THEN out.value ELSE cache[k]]
                              ELSE cache
       \* the builders bind the filtered frame to a local name
       /\ UNCHANGED <<raw_df, dataframe, model_state, ctor_error, ahmVars>>

StatisticTraces ==
    \E ensembles \in EnsembleArgs, vector \in Vectors :
        Memoized("add_statistic_traces", ensembles, vector, NoFilter)

EnssetRealizationTraces ==
    \E ensembles \in EnssetArgs, vector \in Vectors :
        Memoized("add_ensset_realization_traces", ensembles, vector, NoFilter)

RealizationTracesCall ==
    \E ensemble \in RealizationArgs, vector \in Vectors, real_filter \in RealFilters :
        Memoized("add_realization_traces", [list |-> FALSE, v |-> <<ensemble>>],
                 vector, real_filter)

\* an entry's CACHE.TIMEOUT runs out
Expire ==
    /\ \E key \in DOMAIN cache :
          cache' = [k \in DOMAIN cache \ {key} |-> cache[k]]
    /\ UNCHANGED <<raw_df, dataframe, model_state, ctor_error, ts_call, ahmVars>>

NextTS ==
    \/ Construct
    \/ StatisticTraces
    \/ EnssetRealizationTraces
    \/ RealizationTracesCall
    \/ Expire

SpecTS == InitTS /\ [][NextTS]_vars

----------------------------------------------------------------------------
(* Properties of SimulationTimeSeriesModel *)

\* fractions <<numerator, denominator>> with positive denominators
RatEq(a, b) == a[1] * b[2] = b[1] * a[2]

Returned(fn) ==
    /\ ts_call.kind \in {"hit", "miss"}
    /\ ts_call.fn = fn
    /\ ts_call.out.kind = "return"

\* the values of a vector over the rows of an ensemble at a date
ValuesAt(ensemble, date, vector) ==
    Column(SelectSeq(dataframe.rows,
                     LAMBDA r : r["ENSEMBLE"] = ensemble /\ r["DATE"].v = date),
           vector)

DatesOf(ensemble) ==
    {dataframe.rows[i]["DATE"].v :
        i \in {j \in 1..Len(dataframe.rows) :
                  dataframe.rows[j]["ENSEMBLE"] = ensemble}}

\* y is the statistic named by hovertext of the values g
IsStatistic(hovertext, y, g) ==
    LET n == Len(g)
        sorted == SortBy(IntOrder(g), g)
        \* the order statistics around position (n - 1) * q, and the weight
        \* (in tenths) of the upper one
        Interpolated(tenths) ==
            LET lo == (((n - 1) * tenths) \div 10) + 1
                w == ((n - 1) * tenths) % 10
                hi == IF w = 0 THEN lo ELSE lo + 1
            IN <<(10 - w) * sorted[lo] + w * sorted[hi], 10>>
    IN CASE hovertext = "Maximum" ->
              /\ \E i \in 1..n : RatEq(y, <<g[i], 1>>)
              /\ \A i \in 1..n : g[i] * y[2] <= y[1]
         [] hovertext = "Minimum" ->
              /\ \E i \in 1..n : RatEq(y, <<g[i], 1>>)
              /\ \A i \in 1..n : g[i] * y[2] >= y[1]
         [] hovertext = "Mean" -> y[1] * n = y[2] * Sum(g)
         [] hovertext = "P10" -> RatEq(y, Interpolated(1))
         [] hovertext = "P90" -> RatEq(y, Interpolated(9))

FanOrder == <<"Maximum", "P10", "Mean", "P90", "Minimum">>

\* traces[b + 1 .. b + 5] is the fan chart of the ensemble
IsFanBlock(traces, b, ensemble, vector) ==
    \A s \in 1..5 :
        LET t == traces[b + s]
        IN /\ t.hovertext = FanOrder[s]
           /\ t.name = ensemble
           /\ t.legendgroup = ensemble
           /\ Range(t.x) = DatesOf(ensemble)
           /\ \A j \in 1..(Len(t.x) - 1) : StrLess(t.x[j], t.x[j + 1])
           /\ Len(t.y) = Len(t.x)
           /\ \A j \in 1..Len(t.x) :
                 IsStatistic(t.hovertext, t.y[j], ValuesAt(ensemble, t.x[j], vector))

\* C1: what add_statistic_traces returns holds, for every requested ensemble
\* of the model's data and for no other, five consecutive traces Maximum, P10,
\* Mean, P90, Minimum, named and grouped by the ensemble, all over the
\* ensemble's distinct dates in ascending (string) order, each y the named
\* statistic of the vector over the ensemble's rows at the date. The fan
\* charts come first; one trace named "History" follows them when the
\* dataframe has the vector's history vector.
C1_StatisticTraces ==
    Returned("add_statistic_traces") =>
        LET traces == ts_call.out.value
            vector == ts_call.vector
            requested == Range(ts_call.ensembles.v)
            present == {e \in requested :
                          \E i \in 1..Len(dataframe.rows) :
                              dataframe.rows[i]["ENSEMBLE"] = e}
            nfan == 5 * Cardinality(present)
        IN /\ Len(traces) =
                 nfan + (IF HistoricalVector(vector) \in dataframe.columns
                         THEN 1 ELSE 0)
           /\ \A e \in present :
                 \E k \in 0..(Cardinality(present) - 1) :
                     IsFanBlock(traces, 5 * k, e, vector)
           /\ \A i \in 1..Len(traces) :
                 IF i <= nfan THEN traces[i].name \in present
                 ELSE traces[i].name = "History"

\* a fan chart over a date with two values, where the five statistics differ
C1_Witness ==
    /\ Returned("add_statistic_traces")
    /\ ts_call.kind = "miss"
    /\ Len(ts_call.out.value) >= 5
    /\ \A s, t \in 1..5 :
          s # t => ~RatEq(ts_call.out.value[s].y[1], ts_call.out.value[t].y[1])

C7_Construction ==
    /\ model_state # "new" =>
          model_state = IF \E c \in Range(RequiredColumns) : c \notin raw_df.columns
                        THEN "KeyError" ELSE "ok"
    /\ model_state = "KeyError" =>
          /\ ctor_error \in Range(RequiredColumns)
          /\ ctor_error \notin raw_df.columns
          /\ \A i \in 1..(PosIn(RequiredColumns, ctor_error) - 1) :
                RequiredColumns[i] \in raw_df.columns
          /\ dataframe = raw_df
    /\ model_state = "ok" =>
          /\ ctor_error = "none"
          /\ Len(dataframe.rows) = Len(raw_df.rows)
          /\ \A i \in 1..Len(dataframe.rows) :
                /\ dataframe.rows[i]["DATE"].t = "str"
                /\ IsInt(dataframe.rows[i]["DATE"].v)
                /\ IntOf(dataframe.rows[i]["DATE"].v) = raw_df.rows[i]["DATE"].v

\* a KeyError for a dataframe that lacks two of the columns
C7_WitnessKeyError ==
    /\ model_state = "KeyError"
    /\ ctor_error = "REAL"
    /\ "DATE" \notin raw_df.columns
    /\ raw_df.rows # <<>>

----------------------------------------------------------------------------
(* Properties of the AHM plugin *)

Shown == graph.kind # "none" /\ graph.out.kind = "graph"
Tabled == table.kind # "none" /\ table.out.kind = "table"

\* the value ks.csv gives a cell once NaN is read as 0.0
KsValue(p, c) == IF ks_csv.val[<<p, c>>] = NaN THEN 0 ELSE ks_csv.val[<<p, c>>]

WithAllObs == {c \in Range(ks_csv.columns) : Contains(S_All_obs, c)}
WithoutAllObs == Range(ks_csv.columns) \ WithAllObs

\* the first token of s is "0"
FirstTokenIsZero(s) ==
    /\ Len(s) >= 1
    /\ s[1] = "0"
    /\ Len(s) >= 2 => s[2] = " "

FirstPage(data) ==
    SubSeq(data, 1, IF Len(data) < max_rows THEN Len(data) ELSE max_rows)

\* C3: the table _generatetable builds has page size 10 and starts on the
\* first page; its rows are the cells of the columns selected for the choice
\* (ALL: the columns whose name contains "All_obs", the column "All_obs"
\* itself included; ONE: the others), one row per cell, in non-increasing
\* Ks_value order, so that no row after the first page has a larger Ks_value
\* than a row of the first page.
C3_TableTop10 ==
    Tabled =>
        LET data == table.out.data
            cols == IF table.choice = "ALL" THEN WithAllObs ELSE WithoutAllObs
            params == Range(ks_csv.index)
        IN /\ table.out.page_size = 10
           /\ table.out.page_current = 0
           /\ Len(data) = Cardinality(cols) * Cardinality(params)
           /\ \A c \in cols, v \in 0..MaxKs :
                 Cardinality({i \in 1..Len(data) :
                                 data[i].Obs = c /\ data[i].Ks_value = v})
                   = Cardinality({p \in params : KsValue(p, c) = v})
           /\ \A i \in 1..Len(data) :
                 /\ data[i].Obs \in cols
                 /\ \A q \in Range(data[i].Param) :
                       KsValue(q, data[i].Obs) = data[i].Ks_value
           /\ \A i \in 1..(Len(data) - 1) :
                 data[i].Ks_value >= data[i + 1].Ks_value
           /\ \A i \in 1..Len(FirstPage(data)), j \in 1..Len(data) :
                 j > Len(FirstPage(data)) =>
                     FirstPage(data)[i].Ks_value >= data[j].Ks_value

\* a table of more than one page whose first page holds larger values
C3_Witness ==
    /\ Tabled
    /\ table.choice = "ALL"
    /\ Len(table.out.data) > max_rows
    /\ table.out.data[1].Ks_value > table.out.data[max_rows + 1].Ks_value

\* C4: on a displayed heatmap an empty observation filter lists every column
\* get_listtoplot selects, an empty parameter filter lists every parameter,
\* and a non-empty filter keeps exactly the names that contain its text.
C4_EmptyFilterShowsAll ==
    Shown =>
        LET selected == IF graph.choice = "ALL"
                        THEN WithAllObs \ {S_All_obs} ELSE WithoutAllObs
        IN /\ Range(graph.out.x) =
                 IF graph.filter_obs = S_Empty THEN selected
                 ELSE {c \in selected : Contains(graph.filter_obs, c)}
           /\ Range(graph.out.y) =
                 IF graph.filter_param = S_Empty THEN Range(ks_csv.index)
                 ELSE {q \in Range(ks_csv.index) :
                          Contains(graph.filter_param, q)}

\* C5: on a displayed heatmap a cell is missing exactly when the first token
\* of its observation's ratio is "0"; any other cell holds the value ks.csv
\* gives that parameter and observation, NaN read as 0.0.
C5_MissingIffZeroActive ==
    Shown =>
        /\ Len(graph.out.z) = Len(graph.out.y)
        /\ \A yid \in 1..Len(graph.out.y) :
              /\ Len(graph.out.z[yid]) = Len(graph.out.x)
              /\ \A xid \in 1..Len(graph.out.x) :
                    LET obs == graph.out.x[xid]
                        zz == graph.out.z[yid][xid]
                    IN /\ zz = NaN <=> FirstTokenIsZero(active_info[obs])
                       /\ zz # NaN => zz = KsValue(graph.out.y[yid], obs)

\* a heatmap with a missing cell, and with a cell that is NaN in ks.csv and
\* displayed as 0
C5_Witness ==
    /\ Shown
    /\ \E yid \in 1..Len(graph.out.y), xid \in 1..Len(graph.out.x) :
          graph.out.z[yid][xid] = NaN
    /\ \E yid \in 1..Len(graph.out.y), xid \in 1..Len(graph.out.x) :
          /\ ks_csv.val[<<graph.out.y[yid], graph.out.x[xid]>>] = NaN
          /\ graph.out.z[yid][xid] = 0

\* what get_listtoplot returns for the KS matrix of the directory
ListToPlot(choiceplot) == get_listtoplot(ReadKs(ks_csv), choiceplot)

ListToPlotSelection(choiceplot) ==
    LET r == ListToPlot(choiceplot)
    IN r.ok =>
          /\ Range(r.value) = IF choiceplot = "ALL"
                              THEN WithAllObs \ {S_All_obs} ELSE WithoutAllObs
          /\ Len(r.value) = Cardinality(Range(r.value))
          /\ S_All_obs \notin Range(r.value)

\* C6 as stated: get_listtoplot returns for every KS matrix and either choice,
\* ONE giving the columns without "All_obs" in their name, ALL those with it
\* other than "All_obs" itself; the two are disjoint and hold no "All_obs".
C6_ListToPlotTotal ==
    /\ graph.kind = "call" =>
          /\ ListToPlot(graph.choice).ok
          /\ graph.out # [kind |-> "raise", exception |-> "ValueError"]
    /\ \A c \in Choices : ListToPlotSelection(c)
    /\ (ListToPlot("ONE").ok /\ ListToPlot("ALL").ok) =>
          Range(ListToPlot("ONE").value) \cap Range(ListToPlot("ALL").value) = {}

\* C6 amended: the selection is as stated whenever get_listtoplot returns; it
\* returns for choice ONE always and for choice ALL exactly when the matrix
\* has a column named "All_obs"; otherwise list.remove raises ValueError, and
\* so does _update_graph.
C6_ListToPlotAmended ==
    /\ \A c \in Choices :
          /\ ListToPlotSelection(c)
          /\ ListToPlot(c).ok <=>
                (c = "ONE" \/ S_All_obs \in Range(ks_csv.columns))
    /\ ListToPlot("ALL").ok =>
          Range(ListToPlot("ONE").value) \cap Range(ListToPlot("ALL").value) = {}
    /\ (graph.kind # "none" /\ ~ListToPlot(graph.choice).ok) =>
          graph.out = [kind |-> "raise", exception |-> "ValueError"]
    /\ Shown =>
          Range(graph.out.x) \subseteq Range(ListToPlot(graph.choice).value)

\* _update_graph has plotted choice ALL of a matrix with "All_obs", with
\* columns of either kind
C6_Witness ==
    /\ Shown
    /\ graph.choice = "ALL"
    /\ graph.out.x # <<>>
    /\ WithoutAllObs # {}
    /\ S_All_obs \in WithAllObs

====
